---- MODULE Spec2Model ----
(***************************************************************************)
(* A model of skyview.py: the time2seconds parser, the browser acquisition *)
(* functions create_driver / choose_driver, and the main script (page      *)
(* setup, viewport calibration, output directory, count resolution, the    *)
(* capture loop and the final driver.quit()).                              *)
(*                                                                         *)
(* Strings that the code inspects character by character (duration tokens, *)
(* file names) are sequences of one-character strings.  Exceptions are     *)
(* records [type, msg]; NoError stands for "no exception raised".          *)
(***************************************************************************)
EXTENDS Integers, Sequences, FiniteSets, TLC

VARIABLES
    pc,          \* position of the main script / of the function under call
    args,        \* the argparse namespace (after parse_args)
    cand,        \* choose_driver: index of the next candidate of BROWSERS
    launches,    \* every create_driver call made so far, with what it built
    driver,      \* the acquired session (its browser kind), or None
    error,       \* the exception that ended the run, or NoError
    calls,       \* the calls issued on the session / the player, in order
    resizes,     \* the sizes passed to driver.set_window_size, in order
    measured,    \* how many times the element size was read from a PNG header
    actual_size, \* (actual_width, actual_height) as read, <<0, 0>> before
    dir_preexists, \* whether the output directory existed before the run
    disk,        \* the files in the output directory: records [name, gen]
    dir_exists,  \* whether the output directory exists now
    written,     \* the file names written by the capture loop, in order
    num_screenshots, \* the resolved count (local of the main script)
    digits,      \* the padding width (local of the main script)
    i,           \* the loop index
    sleeps,      \* the number of time.sleep(args.interval) calls made
    token,       \* time2seconds: the argument s
    t2s          \* time2seconds: its outcome, or None before the call

vars == <<pc, args, cand, launches, driver, error, calls, resizes, measured,
          actual_size, dir_preexists, disk, dir_exists, written, num_screenshots, digits,
          i, sleeps, token, t2s>>

None == "None"

NoError == [type |-> "none", msg |-> ""]

Exc(t, m) == [type |-> t, msg |-> m]

-----------------------------------------------------------------------------
(* Bounds of the model *)

\* the largest explicit --num-screenshots drawn in the small range
MaxCount == 12
\* one large explicit count, for the three-digit padding
BigCount == 100
\* the largest --time value (seconds, already parsed) of a run
MaxTime == 5
\* the largest --interval of a run
MaxInterval == 2
\* window widths and heights, requested and measured, range over 1..MaxDim
MaxDim == 2
\* the longest duration token given to time2seconds
MaxTokenLen == 3

-----------------------------------------------------------------------------
(* The static tables *)

\* BROWSERS: the keys of the dict in declared (insertion) order
BROWSERS == <<"chrome", "firefox", "edge", "safari">>

BrowserKeys == {BROWSERS[k] : k \in 1..Len(BROWSERS)}

\* a kind that is no key of BROWSERS
UnknownKind == "opera"

-----------------------------------------------------------------------------
(* time2seconds *)

Digits == {"0", "1", "2", "3", "4", "5", "6", "7", "8", "9"}

Units == {"m", "h", "s"}

\* the characters duration tokens are drawn from: the digits, the units, and
\* a letter that is no unit, a minus sign, another letter, a newline
Alphabet == Digits \cup Units \cup {"x", "-", "a", "\n"}

DigitVal(c) ==
    CASE c = "0" -> 0 [] c = "1" -> 1 [] c = "2" -> 2 [] c = "3" -> 3
      [] c = "4" -> 4 [] c = "5" -> 5 [] c = "6" -> 6 [] c = "7" -> 7
      [] c = "8" -> 8 [] c = "9" -> 9

\* int(str) of a string of decimal digits
RECURSIVE int(_)
int(ds) ==
    IF Len(ds) = 0 THEN 0
    ELSE 10 * int(SubSeq(ds, 1, Len(ds) - 1)) + DigitVal(ds[Len(ds)])

\* the length of the longest prefix of s[from..] made of digits (greedy \d+)
RECURSIVE DigitRun(_, _)
DigitRun(s, from) ==
    IF from <= Len(s) /\ s[from] \in Digits THEN 1 + DigitRun(s, from + 1) ELSE 0

\* '$' without re.MULTILINE: at position p (the index of the next character)
\* it matches at the end of the string and just before a newline that is the
\* last character of the string
DollarMatches(s, p) ==
    \/ p = Len(s) + 1
    \/ p = Len(s) /\ s[p] = "\n"

\* the result of a failed re.match (None in the code)
NoMatch == [matched |-> FALSE, g1 |-> <<>>, g2 |-> None]

\* with an optional unit group, ([mhs])?: a mutant of re_match
re_match_optional_unit(s) ==
    LET k == DigitRun(s, 1) IN
    IF k >= 1 /\ k + 1 <= Len(s) /\ s[k + 1] \in Units /\ DollarMatches(s, k + 2)
    THEN [matched |-> TRUE, g1 |-> SubSeq(s, 1, k), g2 |-> s[k + 1]]
    ELSE IF k >= 1 /\ DollarMatches(s, k + 1)
    THEN [matched |-> TRUE, g1 |-> SubSeq(s, 1, k), g2 |-> None]
    ELSE NoMatch

\* re.match(r'^(\d+)([mhs])$', s): no match, or the two groups.  [mhs]
\* matches no digit, so giving back digits of the greedy run never yields a
\* match.
re_match(s) ==
    LET k == DigitRun(s, 1) IN
    IF /\ k >= 1
       /\ k + 1 <= Len(s)
       /\ s[k + 1] \in Units
       /\ DollarMatches(s, k + 2)
    THEN [matched |-> TRUE, g1 |-> SubSeq(s, 1, k), g2 |-> s[k + 1]]
    ELSE NoMatch

\* the unit branches with the factors of h and m exchanged: a mutant
ScaleSwapped(number, unit) ==
    IF unit = "h" THEN number * 60
    ELSE IF unit = "m" THEN number * 3600
    ELSE number

\* lines 61-66: the unit branches
Scale(number, unit) ==
    IF unit = "h" THEN number * 3600
    ELSE IF unit = "m" THEN number * 60
    ELSE number

\* Optional[int]: Python's None is <<>>, the integer n is <<n>>
NoInt == <<>>

Some(n) == <<n>>

\* time2seconds(s): [exc, value], value the Optional[int] returned.  A
\* failed match makes result None, and result.group raises AttributeError,
\* which the except clause turns into ValueError('Invalid time format').
time2seconds(s) ==
    LET result == re_match(s) IN
    IF ~result.matched
    THEN [exc |-> Exc("ValueError", "Invalid time format"), value |-> NoInt]
    ELSE [exc |-> NoError, value |-> Some(Scale(int(result.g1), result.g2))]

Tokens == UNION {[1..n -> Alphabet] : n \in 0..MaxTokenLen}

-----------------------------------------------------------------------------
(* create_driver and choose_driver *)

\* what constructing the driver class (the launch) can do: succeed, raise a
\* WebDriverException, or raise an exception of another class
LaunchOutcomes == {"ok", "WebDriverException", "OSError"}

\* line 33, BROWSERS[browser]: a dict raises KeyError for a missing key
Lookup(browser) ==
    IF browser \in BrowserKeys THEN NoError ELSE Exc("KeyError", browser)

\* lines 41-42 as a clause catching every exception: a mutant of ExceptClause
ExceptAny(exc) ==
    IF exc # NoError
    THEN Exc("LookupError", "No browser found")
    ELSE exc

\* lines 41-42: except IndexError -> raise LookupError('No browser found: ..')
\* every other exception of the try body propagates unchanged
ExceptClause(exc) ==
    IF exc.type \in {"IndexError"}
    THEN Exc("LookupError", "No browser found")
    ELSE exc

\* create_driver with the service built without the driver path: a mutant of
\* create_driver
create_driver_no_path(browser, window_size, driver_path, outcome) ==
    IF Lookup(browser) # NoError
    THEN [exc |-> ExceptClause(Lookup(browser)), driver |-> None, built |-> <<>>,
          browser |-> browser, window_size |-> window_size,
          executable_path |-> None]
    ELSE [exc |-> ExceptClause(IF outcome = "ok" THEN NoError ELSE Exc(outcome, "launch")),
          driver |-> IF outcome = "ok" THEN browser ELSE None,
          built |-> <<"options", "service", "driver">>,
          browser |-> browser, window_size |-> window_size,
          executable_path |-> None]

\* create_driver(browser, window_size, driver_path), lines 31-42; outcome is
\* what the launch does.  The result records the exception raised (or
\* NoError), the driver returned, the objects constructed in order, and the
\* window size and executable path they were constructed with.
create_driver(browser, window_size, driver_path, outcome) ==
    IF Lookup(browser) # NoError
    THEN [exc |-> ExceptClause(Lookup(browser)), driver |-> None, built |-> <<>>,
          browser |-> browser, window_size |-> window_size,
          executable_path |-> driver_path]
    ELSE [exc |-> ExceptClause(IF outcome = "ok" THEN NoError ELSE Exc(outcome, "launch")),
          driver |-> IF outcome = "ok" THEN browser ELSE None,
          built |-> <<"options", "service", "driver">>,
          browser |-> browser, window_size |-> window_size,
          executable_path |-> driver_path]

\* the keys taken in sorted order: a mutant of Candidate
CandidateSorted(k) == <<"chrome", "edge", "firefox", "safari">>[k]

\* line 46, for browser in BROWSERS: the k-th key in declared order
Candidate(k) == BROWSERS[k]

\* line 47, contextlib.suppress(WebDriverException)
Suppressed(exc) == exc.type \in {"WebDriverException"}

-----------------------------------------------------------------------------
(* Helpers of the main script *)

Dims == 1..MaxDim

\* (width, height) pairs, for --window-size and for the measured element
WindowSizes == Dims \X Dims

DriverPaths == {None, "/opt/driver"}

\* the test "is not None" in place of truthiness: a mutant of Truthy
TruthyNotNone(x) == x # NoInt

\* Python truthiness of an Optional[int]: None and 0 are false
Truthy(x) == x # NoInt /\ x[1] # 0

DigitChars == <<"0", "1", "2", "3", "4", "5", "6", "7", "8", "9">>

\* str(n) of a non-negative integer
RECURSIVE str(_)
str(n) ==
    IF n < 10 THEN <<DigitChars[n + 1]>>
    ELSE str(n \div 10) \o <<DigitChars[(n % 10) + 1]>>

\* the format spec 0{width}d: zeros are put in front while the text is
\* shorter than width; a longer text is left as it is
RECURSIVE ZeroPad(_, _)
ZeroPad(text, width) ==
    IF Len(text) >= width THEN text ELSE ZeroPad(<<"0">> \o text, width)

Ext == <<".", "p", "n", "g">>

\* the name padded to the digits of the index itself, not of the count: a
\* mutant of FileName
FileNameUnpadded(index, width) == str(index) \o Ext

\* line 134: f'{i:0{digits}d}.png'
FileName(index, width) == ZeroPad(str(index), width) \o Ext

\* line 131: digits = len(str(num_screenshots))
DigitsOf(n) == Len(str(n))

\* lines 115-116
Diff(requested, actual) == <<requested[1] - actual[1], requested[2] - actual[2]>>

\* a resize only when the width differs: a mutant of NeedsResize
NeedsResizeWidthOnly(requested, actual) == Diff(requested, actual)[1] # 0

\* line 117: if width_diff or height_diff
NeedsResize(requested, actual) ==
    Diff(requested, actual)[1] # 0 \/ Diff(requested, actual)[2] # 0

\* line 119: the size passed to driver.set_window_size
NewSize(requested, actual) ==
    <<requested[1] + Diff(requested, actual)[1],
      requested[2] + Diff(requested, actual)[2]>>

\* the quotient rounded up: a mutant of IntOfQuotient
IntOfQuotientCeil(t, interval) == (t + interval - 1) \div interval

\* int(args.time / args.interval): true division, then truncation.  For
\* non-negative operands below 2^53 the double quotient truncates to the
\* integer quotient.
IntOfQuotient(t, interval) == t \div interval

\* what an output directory that exists before the run holds
OldFiles == {[name |-> FileName(0, 1), gen |-> "old"]}

\* writing a file: a file of that name is replaced
WriteFile(files, name) ==
    {f \in files : f.name # name} \cup {[name |-> name, gen |-> "new"]}

-----------------------------------------------------------------------------
(* The main script, lines 69-142 *)

\* the namespaces parse_args can return: --browser is absent or one of the
\* choices, and exactly one of --num-screenshots / --time is given
\* (a required mutually exclusive group); --time is already converted.
\* Every combination of the arguments with a small count or duration ...
ShortRuns ==
    {a \in [browser : {None} \cup BrowserKeys,
            window_size : WindowSizes,
            driver_path : DriverPaths,
            interval : 0..MaxInterval,
            num_screenshots : {NoInt} \cup {Some(n) : n \in 0..MaxCount},
            time : {NoInt} \cup {Some(t) : t \in 0..MaxTime}] :
        (a.num_screenshots = NoInt) # (a.time = NoInt)}

\* ... and the large count with one window size, interval and driver path
LongRuns ==
    [browser : {None, BROWSERS[1]},
     window_size : {<<MaxDim, MaxDim>>},
     driver_path : {None},
     interval : {1},
     num_screenshots : {Some(BigCount)},
     time : {NoInt}]

ArgSets == ShortRuns \cup LongRuns

NotCalled == [exc |-> NoError, value |-> NoInt]

\* the state before anything ran, but for pc, args, token and the directory
Fresh ==
    /\ cand = 1
    /\ launches = <<>>
    /\ driver = None
    /\ error = NoError
    /\ calls = <<>>
    /\ resizes = <<>>
    /\ measured = 0
    /\ actual_size = <<0, 0>>
    /\ written = <<>>
    /\ num_screenshots = 0
    /\ digits = 0
    /\ i = 0
    /\ sleeps = 0
    /\ t2s = NotCalled

Init ==
    /\ pc = "acquire"
    /\ args \in ArgSets
    /\ dir_preexists \in BOOLEAN
    /\ dir_exists = dir_preexists
    /\ disk = IF dir_preexists THEN OldFiles ELSE {}
    /\ token = <<>>
    /\ Fresh

\* lines 81-82: an explicit --browser; an exception here is raised before
\* the try block is entered
AcquireExplicit ==
    /\ pc = "acquire"
    /\ args.browser # None
    /\ \E outcome \in LaunchOutcomes :
         LET r == create_driver(args.browser, args.window_size, args.driver_path, outcome) IN
         /\ launches' = Append(launches, r)
         /\ IF r.exc = NoError
            THEN /\ driver' = r.driver
                 /\ pc' = "setup"
                 /\ error' = error
            ELSE /\ driver' = driver
                 /\ pc' = "done"
                 /\ error' = r.exc
    /\ UNCHANGED <<args, cand, calls, resizes, measured, actual_size, dir_preexists, disk,
                   dir_exists, written, num_screenshots, digits, i, sleeps,
                   token, t2s>>

\* one iteration of the loop of choose_driver, lines 46-48, called from
\* line 84: the candidate is launched with no driver path; a
\* WebDriverException is suppressed and the loop goes on, any other
\* exception leaves choose_driver
ChooseDriverStep ==
    /\ pc = "acquire"
    /\ args.browser = None
    /\ cand <= Len(BROWSERS)
    /\ \E outcome \in LaunchOutcomes :
         LET r == create_driver(Candidate(cand), args.window_size, None, outcome) IN
         /\ launches' = Append(launches, r)
         /\ IF r.exc = NoError
            THEN /\ driver' = r.driver
                 /\ pc' = "setup"
                 /\ error' = error
                 /\ cand' = cand
            ELSE IF Suppressed(r.exc)
            THEN /\ driver' = driver
                 /\ pc' = pc
                 /\ error' = error
                 /\ cand' = cand + 1
            ELSE /\ driver' = driver
                 /\ pc' = "done"
                 /\ error' = r.exc
                 /\ cand' = cand
    /\ UNCHANGED <<args, calls, resizes, measured, actual_size, dir_preexists, disk,
                   dir_exists, written, num_screenshots, digits, i, sleeps,
                   token, t2s>>

\* line 50: the loop of choose_driver ended without a return
ChooseDriverExhausted ==
    /\ pc = "acquire"
    /\ args.browser = None
    /\ cand > Len(BROWSERS)
    /\ error' = Exc("LookupError", "No supported browser found")
    /\ pc' = "done"
    /\ UNCHANGED <<args, cand, launches, driver, calls, resizes, measured, actual_size,
                   dir_preexists, disk, dir_exists, written, num_screenshots,
                   digits, i, sleeps, token, t2s>>

\* the quit placed after the loop with no try/finally: a mutant of OnException
OnExceptionNoFinally == "done"

\* the exception swallowed and the loop carried on: a mutant of OnException
OnExceptionSwallowed == "sleep"

\* lines 86 and 141: an exception raised inside the try block runs the
\* finally clause before it propagates
OnException == "finally"

\* lines 87-105: load the page, dismiss the cookie banner, find the player
\* and start playback; any of these calls may raise
PageSetup ==
    /\ pc = "setup"
    /\ calls' = Append(calls, "get")
    /\ \E ok \in BOOLEAN :
         IF ok
         THEN pc' = "calibrate" /\ error' = error
         ELSE pc' = OnException /\ error' = Exc("WebDriverException", "setup")
    /\ UNCHANGED <<args, cand, launches, driver, resizes, measured, actual_size,
                   dir_preexists, disk, dir_exists, written, num_screenshots,
                   digits, i, sleeps, token, t2s>>

\* the directory creation left out: a mutant of AfterCalibration
AfterCalibrationNoMkdir == "resolve"

\* lines 120-122: control leaves the calibration block for the creation of
\* the output directory
AfterCalibration == "mkdir"

\* lines 109-120: screenshot the player into a temporary directory, read the
\* size from the PNG header, resize when it differs from the requested size
Calibrate ==
    /\ pc = "calibrate"
    /\ \E shot_ok \in BOOLEAN, size \in WindowSizes, resize_ok \in BOOLEAN :
         IF ~shot_ok
         THEN /\ calls' = Append(calls, "screenshot_sizetest")
              /\ error' = Exc("WebDriverException", "screenshot")
              /\ pc' = OnException
              /\ UNCHANGED <<measured, actual_size, resizes>>
         ELSE /\ measured' = measured + 1
              /\ actual_size' = size
              /\ IF NeedsResize(args.window_size, size)
                 THEN /\ calls' = calls \o <<"screenshot_sizetest", "set_window_size">>
                      /\ resizes' = Append(resizes, NewSize(args.window_size, size))
                      /\ IF resize_ok
                         THEN pc' = AfterCalibration /\ error' = error
                         ELSE pc' = OnException /\ error' = Exc("WebDriverException", "resize")
                 ELSE /\ calls' = Append(calls, "screenshot_sizetest")
                      /\ resizes' = resizes
                      /\ pc' = AfterCalibration
                      /\ error' = error
    /\ UNCHANGED <<args, cand, launches, driver, dir_preexists, disk,
                   dir_exists, written, num_screenshots, digits, i, sleeps,
                   token, t2s>>

\* mkdir(exist_ok=True): a mutant of MkdirFails
MkdirExistOk(exists) == FALSE

\* line 124, mkdir(exist_ok=False): FileExistsError when the directory exists
MkdirFails(exists) == exists

\* lines 122-124: name and create the output directory
MakeDir ==
    /\ pc = "mkdir"
    /\ IF MkdirFails(dir_exists)
       THEN /\ error' = Exc("FileExistsError", "output directory")
            /\ pc' = OnException
            /\ dir_exists' = dir_exists
       ELSE /\ error' = error
            /\ pc' = "resolve"
            /\ dir_exists' = TRUE
    /\ UNCHANGED <<args, cand, launches, driver, calls, resizes, measured, actual_size,
                   dir_preexists, disk, written, num_screenshots, digits, i,
                   sleeps, token, t2s>>

\* lines 126-129: the count, [exc, value]
ResolveCount(a) ==
    IF Truthy(a.num_screenshots)
    THEN [exc |-> NoError, value |-> a.num_screenshots[1]]
    ELSE IF a.time = NoInt
    THEN [exc |-> Exc("TypeError", "None / int"), value |-> 0]
    ELSE IF a.interval = 0
    THEN [exc |-> Exc("ZeroDivisionError", "division by zero"), value |-> 0]
    ELSE [exc |-> NoError, value |-> IntOfQuotient(a.time[1], a.interval)]

\* lines 126-131: resolve the count and the padding width
Resolve ==
    /\ pc = "resolve"
    /\ LET r == ResolveCount(args) IN
       IF r.exc = NoError
       THEN /\ num_screenshots' = r.value
            /\ digits' = DigitsOf(r.value)
            /\ pc' = "loop"
            /\ error' = error
       ELSE /\ UNCHANGED <<num_screenshots, digits>>
            /\ pc' = OnException
            /\ error' = r.exc
    /\ UNCHANGED <<args, cand, launches, driver, calls, resizes, measured, actual_size,
                   dir_preexists, disk, dir_exists, written, i, sleeps,
                   token, t2s>>

\* lines 133-136: the loop test succeeded; screenshot the player into the
\* next file and report it
Capture ==
    /\ pc = "loop"
    /\ i < num_screenshots
    /\ calls' = Append(calls, "screenshot_capture")
    /\ \E ok \in BOOLEAN :
         IF ok
         THEN /\ disk' = WriteFile(disk, FileName(i, digits))
              /\ written' = Append(written, FileName(i, digits))
              /\ pc' = "sleep"
              /\ error' = error
         ELSE /\ UNCHANGED <<disk, written>>
              /\ pc' = OnException
              /\ error' = Exc("WebDriverException", "capture")
    /\ UNCHANGED <<args, cand, launches, driver, resizes, measured, actual_size,
                   dir_preexists, dir_exists, num_screenshots, digits, i,
                   sleeps, token, t2s>>

\* every other index: a mutant of NextIndex
NextIndexSkipping(index) == index + 2

\* line 133: the value of range(num_screenshots) after index
NextIndex(index) == index + 1

\* line 137, then the next value of range(num_screenshots)
Sleep ==
    /\ pc = "sleep"
    /\ sleeps' = sleeps + 1
    /\ i' = NextIndex(i)
    /\ pc' = "loop"
    /\ UNCHANGED <<args, cand, launches, driver, error, calls, resizes,
                   measured, actual_size, dir_preexists, disk, dir_exists, written,
                   num_screenshots, digits, token, t2s>>

\* line 133: range(num_screenshots) is exhausted
LoopExit ==
    /\ pc = "loop"
    /\ i >= num_screenshots
    /\ pc' = "finally"
    /\ UNCHANGED <<args, cand, launches, driver, error, calls, resizes,
                   measured, actual_size, dir_preexists, disk, dir_exists, written,
                   num_screenshots, digits, i, sleeps, token, t2s>>

\* lines 141-142: the finally clause
Quit ==
    /\ pc = "finally"
    /\ calls' = Append(calls, "quit")
    /\ pc' = "done"
    /\ UNCHANGED <<args, cand, launches, driver, error, resizes, measured, actual_size,
                   dir_preexists, disk, dir_exists, written, num_screenshots,
                   digits, i, sleeps, token, t2s>>

Next ==
    \/ AcquireExplicit
    \/ ChooseDriverStep
    \/ ChooseDriverExhausted
    \/ PageSetup
    \/ Calibrate
    \/ MakeDir
    \/ Resolve
    \/ Capture
    \/ Sleep
    \/ LoopExit
    \/ Quit

Spec == Init /\ [][Next]_vars

-----------------------------------------------------------------------------
(* time2seconds called on its own (argparse calls it on the --time token) *)

\* a namespace for the specifications that run one function only
SomeArgs ==
    [browser |-> None, window_size |-> <<1, 1>>, driver_path |-> None,
     interval |-> 1, num_screenshots |-> Some(1), time |-> NoInt]

InitTime ==
    /\ pc = "time2seconds"
    /\ token \in Tokens
    /\ args = SomeArgs
    /\ dir_preexists = FALSE
    /\ dir_exists = FALSE
    /\ disk = {}
    /\ Fresh

\* time2seconds(token), lines 53-66
Time2SecondsCall ==
    /\ pc = "time2seconds"
    /\ t2s' = time2seconds(token)
    /\ error' = time2seconds(token).exc
    /\ pc' = "done"
    /\ UNCHANGED <<args, cand, launches, driver, calls, resizes, measured, actual_size,
                   dir_preexists, disk, dir_exists, written, num_screenshots,
                   digits, i, sleeps, token>>

NextTime == Time2SecondsCall

SpecTime == InitTime /\ [][NextTime]_vars

-----------------------------------------------------------------------------
(* create_driver called on its own, with any kind *)

InitCreate ==
    /\ pc = "create_driver"
    /\ args \in {a \in [browser : BrowserKeys \cup {UnknownKind},
                        window_size : WindowSizes,
                        driver_path : DriverPaths,
                        interval : {1},
                        num_screenshots : {Some(1)},
                        time : {NoInt}] : TRUE}
    /\ token = <<>>
    /\ dir_preexists = FALSE
    /\ dir_exists = FALSE
    /\ disk = {}
    /\ Fresh

\* create_driver(browser, window_size, driver_path), lines 31-42
CreateDriverCall ==
    /\ pc = "create_driver"
    /\ \E outcome \in LaunchOutcomes :
         LET r == create_driver(args.browser, args.window_size, args.driver_path, outcome) IN
         /\ launches' = Append(launches, r)
         /\ driver' = r.driver
         /\ error' = r.exc
    /\ pc' = "done"
    /\ UNCHANGED <<args, cand, calls, resizes, measured, actual_size, dir_preexists, disk,
                   dir_exists, written, num_screenshots, digits, i, sleeps,
                   token, t2s>>

NextCreate == CreateDriverCall

SpecCreate == InitCreate /\ [][NextCreate]_vars

-----------------------------------------------------------------------------
(* Properties *)

AutoSelection == args.browser = None

\* the positions of the calls of one kind in the call log
CallsOf(op) == {k \in 1..Len(calls) : calls[k] = op}

Acquired == driver # None

C2_SessionQuitExactlyOnce ==
    /\ Cardinality(CallsOf("quit")) <= 1
    /\ \A k \in CallsOf("quit") : k = Len(calls)
    /\ ~Acquired => calls = <<>>
    /\ (Acquired /\ pc # "done") => CallsOf("quit") = {}
    /\ (Acquired /\ pc = "done") => Cardinality(CallsOf("quit")) = 1

\* C2 witness: a run that wrote a file, then failed in a capture of the
\* loop, and has ended with the session quit.
C2_Witness ==
    /\ pc = "done"
    /\ Acquired
    /\ error = Exc("WebDriverException", "capture")
    /\ written # <<>>
    /\ calls[Len(calls)] = "quit"

\* C3: the element size is measured at most once and at most one resize is
\* issued per run; once the size has been measured, no resize was issued if
\* it equals the requested size in both dimensions, and otherwise exactly
\* one was, with size (w + (w - actual_w), h + (h - actual_h)); nothing is
\* resized before the measurement.
C3_AtMostOneResize ==
    /\ measured <= 1
    /\ Len(resizes) <= 1
    /\ Cardinality(CallsOf("set_window_size")) = Len(resizes)
    /\ Cardinality(CallsOf("screenshot_sizetest")) <= 1
    /\ measured = 0 => resizes = <<>>
    /\ measured = 1 =>
         LET w == args.window_size[1]
             h == args.window_size[2]
         IN  IF actual_size[1] = w /\ actual_size[2] = h
             THEN resizes = <<>>
             ELSE resizes = << <<w + (w - actual_size[1]), h + (h - actual_size[2])>> >>

\* C3 witness: a run that completed all its captures after a resize that
\* the height alone made necessary.
C3_Witness ==
    /\ pc = "done"
    /\ error = NoError
    /\ written # <<>>
    /\ actual_size[1] = args.window_size[1]
    /\ actual_size[2] # args.window_size[2]
    /\ Len(resizes) = 1

\* 10^d
RECURSIVE Pow10(_)
Pow10(d) == IF d = 0 THEN 1 ELSE 10 * Pow10(d - 1)

\* the number of decimal digits of n >= 1: the d with 10^(d-1) <= n < 10^d
DecimalDigits(n) == CHOOSE d \in 1..10 : Pow10(d - 1) <= n /\ n < Pow10(d)

\* the value of a string of digits, most significant first
RECURSIVE DecimalValue(_)
DecimalValue(ds) ==
    IF ds = <<>> THEN 0
    ELSE DigitVal(ds[1]) * Pow10(Len(ds) - 1) + DecimalValue(Tail(ds))

\* C4: the k-th file written by the loop is named by the digits of k-1,
\* zero-padded to exactly the number of decimal digits of the count, then
\* ".png"; so all names of a run have the same length, and a run that
\* completes has written the indices 0..N-1 (count 12: "00.png".."11.png";
\* count 100: "000.png".."099.png").
C4_ZeroPaddedNames ==
    /\ \A k \in 1..Len(written) :
         LET stem == SubSeq(written[k], 1, Len(written[k]) - 4) IN
         /\ num_screenshots >= 1
         /\ k <= num_screenshots
         /\ digits = DecimalDigits(num_screenshots)
         /\ Len(stem) = DecimalDigits(num_screenshots)
         /\ \A j \in 1..Len(stem) : stem[j] \in Digits
         /\ DecimalValue(stem) = k - 1
         /\ SubSeq(written[k], Len(written[k]) - 3, Len(written[k])) = <<".", "p", "n", "g">>
    /\ (pc = "done" /\ error = NoError /\ Acquired) => Len(written) = num_screenshots
    /\ (num_screenshots = 12 /\ Len(written) = 12) =>
         /\ written[1] = <<"0", "0", ".", "p", "n", "g">>
         /\ written[12] = <<"1", "1", ".", "p", "n", "g">>
    /\ (num_screenshots = 100 /\ Len(written) = 100) =>
         /\ written[1] = <<"0", "0", "0", ".", "p", "n", "g">>
         /\ written[100] = <<"0", "9", "9", ".", "p", "n", "g">>

\* C4 witness: a completed run of 100 captures.
C4_Witness ==
    /\ pc = "done"
    /\ error = NoError
    /\ num_screenshots = 100
    /\ Len(written) = 100
    /\ written[100] = <<"0", "9", "9", ".", "p", "n", "g">>
\* the calls that screenshot the capture target (the player element)
PlayerScreenshots == CallsOf("screenshot_sizetest") \cup CallsOf("screenshot_capture")

\* C5 as stated: in a run whose output directory pre-exists, no screenshot
\* of the capture target is taken before the run fails with the
\* directory-exists error, and nothing in the directory is overwritten.
C5_NoScreenshotBeforeDirectoryFailure ==
    dir_preexists =>
        /\ disk = OldFiles
        /\ error.type = "FileExistsError" => PlayerScreenshots = {}

\* C5 amended: in a run whose output directory pre-exists, no capture of
\* the loop is ever attempted (nothing is written into the directory, the
\* count is never resolved, no interval sleep occurs) and the directory
\* keeps exactly what it held; a run that gets as far as creating the
\* directory fails there with FileExistsError, the only screenshot of the
\* capture target taken before being the one size-test screenshot of the
\* calibration; the run cannot end without an error.
C5_NoLoopCaptureWhenDirectoryExists ==
    /\ dir_preexists =>
          /\ disk = OldFiles
          /\ written = <<>>
          /\ CallsOf("screenshot_capture") = {}
          /\ sleeps = 0
          /\ pc \notin {"resolve", "loop", "sleep"}
          /\ (pc = "done" /\ Acquired) => error # NoError
          /\ error.type = "FileExistsError" =>
                /\ Cardinality(CallsOf("screenshot_sizetest")) = 1
                /\ measured = 1
    /\ error.type = "FileExistsError" => dir_preexists

\* C5 witness: a run over a pre-existing directory that has ended with
\* FileExistsError after the calibration resized the window.
C5_Witness ==
    /\ dir_preexists
    /\ pc = "done"
    /\ error.type = "FileExistsError"
    /\ Len(resizes) = 1
    /\ calls[Len(calls)] = "quit"

\* C6: a run that ends without an error has performed exactly N captures
\* when the explicit count N >= 1 was given, and otherwise, for a duration
\* t >= 0 and an interval >= 1, exactly the q with
\* q * interval <= t < (q + 1) * interval, that is floor(t / interval).
C6_CaptureCount ==
    (pc = "done" /\ error = NoError /\ Acquired) =>
        /\ Cardinality(CallsOf("screenshot_capture")) = Len(written)
        /\ IF Truthy(args.num_screenshots)
           THEN Len(written) = args.num_screenshots[1]
           ELSE /\ args.time # NoInt
                /\ args.interval >= 1
                /\ Len(written) * args.interval <= args.time[1]
                /\ args.time[1] < (Len(written) + 1) * args.interval

\* C6 witness: a successful run given a duration of 5 and an interval of 2,
\* which made 2 captures.
C6_Witness ==
    /\ pc = "done"
    /\ error = NoError
    /\ args.time = Some(5)
    /\ args.interval = 2
    /\ Len(written) = 2
\* the token is one or more digits
AllDigits(tok) == Len(tok) >= 1 /\ \A k \in 1..Len(tok) : tok[k] \in Digits

\* the token is one or more digits followed by exactly one unit letter
DigitsThenUnit(tok) ==
    /\ Len(tok) >= 2
    /\ AllDigits(SubSeq(tok, 1, Len(tok) - 1))
    /\ tok[Len(tok)] \in {"h", "m", "s"}

Returned == pc = "done" /\ t2s.exc = NoError

Raised == pc = "done" /\ t2s.exc # NoError

\* C7: for a token of digits (of value n) followed by one unit letter,
\* time2seconds returns n*3600 for h, n*60 for m and n for s
\* ("2h" -> 7200, "90m" -> 5400, "45s" -> 45).
C7_UnitFactors ==
    (pc = "done" /\ DigitsThenUnit(token)) =>
        LET n == DecimalValue(SubSeq(token, 1, Len(token) - 1))
            u == token[Len(token)]
        IN  /\ Returned
            /\ u = "h" => t2s.value = <<n * 3600>>
            /\ u = "m" => t2s.value = <<n * 60>>
            /\ u = "s" => t2s.value = <<n>>
            /\ token = <<"2", "h">> => t2s.value = <<7200>>
            /\ token = <<"9", "0", "m">> => t2s.value = <<5400>>
            /\ token = <<"4", "5", "s">> => t2s.value = <<45>>

\* C7 witness: "90m" has returned 5400.
C7_Witness ==
    /\ Returned
    /\ token = <<"9", "0", "m">>
    /\ t2s.value = <<5400>>

\* C8 as stated: for a bare token of digits only (of value n), time2seconds
\* returns n.
C8_BareTokenIsSeconds ==
    (pc = "done" /\ AllDigits(token)) =>
        /\ Returned
        /\ t2s.value = <<DecimalValue(token)>>

\* C8 amended: for a bare token of digits only, with no unit letter,
\* time2seconds raises ValueError('Invalid time format') and returns no
\* value: the unit letter is mandatory.
C8_BareTokenRejected ==
    (pc = "done" /\ AllDigits(token)) =>
        /\ t2s.exc = Exc("ValueError", "Invalid time format")
        /\ error = Exc("ValueError", "Invalid time format")
        /\ t2s.value = NoInt

\* C8 witness: "45" has been rejected.
C8_Witness ==
    /\ Raised
    /\ token = <<"4", "5">>
    /\ t2s.value = NoInt

\* a token that is neither digits followed by one unit letter nor digits
\* alone
Malformed(tok) == ~DigitsThenUnit(tok) /\ ~AllDigits(tok)

\* C9: for every malformed token time2seconds raises
\* ValueError('Invalid time format') and returns no value.
C9_MalformedTokenRejected ==
    (pc = "done" /\ Malformed(token)) =>
        /\ t2s.exc = Exc("ValueError", "Invalid time format")
        /\ t2s.value = NoInt

\* C10: create_driver called with a kind that is no key of BROWSERS raises
\* LookupError('No browser found: ...') and constructs nothing.
C10_UnknownKindLookupError ==
    (pc = "done" /\ args.browser \notin BrowserKeys) =>
        /\ error = Exc("LookupError", "No browser found")
        /\ driver = None
        /\ \A k \in 1..Len(launches) : launches[k].built = <<>>
\* every key of BROWSERS has been launched once, in declared order, and
\* every launch failed
AllCandidatesFailed ==
    /\ Len(launches) = Len(BROWSERS)
    /\ \A k \in 1..Len(launches) :
         launches[k].browser = BROWSERS[k] /\ launches[k].exc # NoError

\* C11: an auto-selection in which every candidate of BROWSERS has failed to
\* launch (each attempted once, in declared order) ends with
\* LookupError('No supported browser found') and returns no session.
C11_ExhaustionRaisesNoSupportedBrowser ==
    (AutoSelection /\ pc = "done" /\ AllCandidatesFailed) =>
        /\ error = Exc("LookupError", "No supported browser found")
        /\ ~Acquired

\* C12: in auto-selection no failure of one candidate's launch, whatever
\* the exception, ends the acquisition while untried candidates remain: a
\* run that ends without a session has attempted every candidate.
C12_AnyLaunchFailureIsDiscarded ==
    (AutoSelection /\ pc = "done" /\ ~Acquired) =>
        /\ Len(launches) = Len(BROWSERS)
        /\ error = Exc("LookupError", "No supported browser found")

\* the launch of an explicit kind has been attempted and has failed
ExplicitLaunchFailed ==
    /\ ~AutoSelection
    /\ Len(launches) >= 1
    /\ launches[1].exc # NoError

\* C13: with an explicit kind at most one launch is attempted in the whole
\* run, of that kind; when it fails, the launch's own exception ends the
\* run at once: no session, no other kind attempted, nothing called on a
\* session.
C13_ExplicitLaunchFailurePropagates ==
    ~AutoSelection =>
        /\ Len(launches) <= 1
        /\ pc # "acquire" => Len(launches) = 1
        /\ \A k \in 1..Len(launches) : launches[k].browser = args.browser
        /\ ExplicitLaunchFailed =>
              /\ pc = "done"
              /\ ~Acquired
              /\ error = launches[1].exc
              /\ error.type \in LaunchOutcomes \ {"ok"}
              /\ error.msg = "launch"
              /\ calls = <<>>

\* C13 witness: the launch of the explicit kind firefox has failed and the
\* run has ended with that exception after this one attempt.
C13_Witness ==
    /\ args.browser = "firefox"
    /\ pc = "done"
    /\ Len(launches) = 1
    /\ launches[1].browser = "firefox"
    /\ error = Exc("WebDriverException", "launch")
    /\ ~Acquired
\* the run acquired a session and has ended without an exception
Succeeded == pc = "done" /\ error = NoError /\ Acquired

\* C14: a successful run of N >= 1 captures has made exactly N-1 interval
\* sleeps (none after the final capture).
C14_NoSleepAfterFinalCapture ==
    (Succeeded /\ Len(written) >= 1) => sleeps = Len(written) - 1

\* the set of files the loop has written so far, as they lie on the disk
WrittenFiles == {[name |-> written[k], gen |-> "new"] : k \in 1..Len(written)}

\* a capture of the loop has failed
CaptureFailed == error = Exc("WebDriverException", "capture")

\* C15: once the capture of index k has failed, the run is in its finally
\* clause or over, with that failure as its error; the failed capture is the
\* last one attempted (k+1 attempts, k files), no sleep followed it (k
\* sleeps, one after each earlier capture), and the directory still exists
\* and holds exactly the k files written before, none deleted.
C15_CaptureFailureAborts ==
    CaptureFailed =>
        /\ pc \in {"finally", "done"}
        /\ i = Len(written)
        /\ i < num_screenshots
        /\ Cardinality(CallsOf("screenshot_capture")) = i + 1
        /\ sleeps = i
        /\ dir_exists
        /\ disk = WrittenFiles
        /\ Cardinality(disk) = i
        /\ \A k \in 1..Len(written) : DecimalValue(SubSeq(written[k], 1, digits)) = k - 1

\* C15 witness: the capture of index 2 has failed, the run is over, and the
\* two files written before are on the disk.
C15_Witness ==
    /\ CaptureFailed
    /\ pc = "done"
    /\ i = 2
    /\ Cardinality(disk) = 2
    /\ calls[Len(calls)] = "quit"

\* the index a file name stands for
IndexOf(name) == DecimalValue(SubSeq(name, 1, Len(name) - 4))

\* C16: at every point the files written are those of the indices
\* 0..j-1 in this order, j <= count, with j the loop index (or one more
\* between a capture and its sleep): none skipped, none repeated; each
\* capture call but a failed one wrote one file; the names are pairwise
\* different, so each file is created once; and in a fresh directory the
\* disk holds exactly these files.
C16_IndicesInSequence ==
    /\ Len(written) <= num_screenshots
    /\ \A k \in 1..Len(written) : IndexOf(written[k]) = k - 1
    /\ \A k, l \in 1..Len(written) : written[k] = written[l] => k = l
    /\ pc = "sleep" => Len(written) = i + 1
    /\ pc = "loop" => Len(written) = i
    /\ i <= num_screenshots
    /\ Cardinality(CallsOf("screenshot_capture")) =
          Len(written) + (IF CaptureFailed THEN 1 ELSE 0)
    /\ ~dir_preexists =>
          /\ disk = WrittenFiles
          /\ Cardinality(disk) = Len(written)
          /\ written # <<>> => dir_exists
          /\ dir_exists => pc \notin {"acquire", "setup", "calibrate", "mkdir"}

\* C16 witness: in the middle of a run of 12 captures the files of the
\* indices 0..6 are written and the loop is about to capture index 7.
C16_Witness ==
    /\ pc = "loop"
    /\ num_screenshots = 12
    /\ i = 7
    /\ Len(written) = 7
    /\ IndexOf(written[7]) = 6

\* the least position of a call of one kind, 0 when there is none
FirstCall(op) ==
    IF CallsOf(op) = {} THEN 0
    ELSE CHOOSE k \in CallsOf(op) : \A l \in CallsOf(op) : k <= l

\* C17: launches happen only before anything is called on the session; the
\* size-test screenshot and the resize come before every capture of the
\* loop, so no resize follows a capture; the output directory is created by
\* the run only after the calibration has measured, and before the first
\* capture.
C17_PhasesInOrder ==
    /\ calls # <<>> =>
          /\ Acquired
          /\ launches[Len(launches)].exc = NoError
          /\ pc # "acquire"
    /\ calls # <<>> => calls[1] = "get"
    /\ \A k \in CallsOf("screenshot_capture") :
          /\ \A l \in CallsOf("set_window_size") : l < k
          /\ \A l \in CallsOf("screenshot_sizetest") : l < k
          /\ CallsOf("screenshot_sizetest") # {}
          /\ measured = 1
          /\ dir_exists
          /\ ~dir_preexists
    /\ \A k \in CallsOf("set_window_size") : k = FirstCall("screenshot_sizetest") + 1
    /\ (dir_exists /\ ~dir_preexists) =>
          /\ measured = 1
          /\ pc \in {"resolve", "loop", "sleep", "finally", "done"}
    /\ pc \in {"acquire", "setup", "calibrate"} => measured = 0 /\ resizes = <<>>
    /\ pc \in {"acquire", "setup", "calibrate", "mkdir"} => written = <<>>

\* C17 witness: a run by auto-selection with a second launch, a resize, a
\* created directory and three captures.
C17_Witness ==
    /\ AutoSelection
    /\ Len(launches) = 2
    /\ Len(resizes) = 1
    /\ ~dir_preexists
    /\ Len(written) = 3
    /\ pc = "done"
\* the output directory was created by this run
DirectoryCreated == dir_exists /\ ~dir_preexists

\* C18: with an explicit count of 0 the count resolution takes the duration
\* branch, where the duration is None, and raises TypeError: the loop is
\* never entered and nothing is captured; the error comes after the
\* directory was created; a run that created the directory ends with this
\* error and with the session quit.  No other run raises it.
C18_ZeroCountFallsThrough ==
    /\ args.num_screenshots = Some(0) =>
          /\ pc \notin {"loop", "sleep"}
          /\ written = <<>>
          /\ CallsOf("screenshot_capture") = {}
          /\ sleeps = 0
          /\ error.type = "TypeError" => DirectoryCreated /\ disk = {}
          /\ (pc \in {"finally", "done"} /\ DirectoryCreated) => error.type = "TypeError"
          /\ (pc = "done" /\ Acquired) =>
                /\ error # NoError
                /\ calls[Len(calls)] = "quit"
    /\ error.type = "TypeError" => args.num_screenshots = Some(0) /\ args.time = NoInt

\* C18 witness: a run with --num-screenshots 0 has ended with TypeError,
\* the directory created and empty, the session quit.
C18_Witness ==
    /\ args.num_screenshots = Some(0)
    /\ pc = "done"
    /\ error.type = "TypeError"
    /\ DirectoryCreated
    /\ calls[Len(calls)] = "quit"

\* a duration shorter than the interval was given
DurationBelowInterval ==
    /\ args.time # NoInt
    /\ args.interval >= 1
    /\ args.time[1] < args.interval

\* C19: with a duration shorter than the interval neither the count
\* resolution nor the loop raises: the count is 0, nothing is captured, no
\* interval sleep is made, and a run that created the directory ends
\* without an error, the directory empty and the session quit.
C19_ZeroResolvedCountRunsEmpty ==
    DurationBelowInterval =>
        /\ error.type \notin {"TypeError", "ZeroDivisionError"}
        /\ ~CaptureFailed
        /\ written = <<>>
        /\ CallsOf("screenshot_capture") = {}
        /\ sleeps = 0
        /\ pc # "sleep"
        /\ pc = "loop" => num_screenshots = 0
        /\ (pc \in {"finally", "done"} /\ DirectoryCreated) =>
              /\ error = NoError
              /\ disk = {}
              /\ num_screenshots = 0
        /\ (pc = "done" /\ Acquired) => calls[Len(calls)] = "quit"

\* C19 witness: a run with a duration of 1 and an interval of 2 has ended
\* without an error, the directory created and empty, the session quit.
C19_Witness ==
    /\ args.time = Some(1)
    /\ args.interval = 2
    /\ pc = "done"
    /\ error = NoError
    /\ DirectoryCreated
    /\ disk = {}
    /\ calls[Len(calls)] = "quit"

\* C20: every launch attempt is made with the window size of the arguments;
\* in auto-selection every attempt is made with no driver path, whatever
\* --driver-path is; with an explicit kind the attempt is made with the
\* --driver-path value.
C20_DriverPathOnlyWithExplicitKind ==
    \A k \in 1..Len(launches) :
        /\ launches[k].window_size = args.window_size
        /\ AutoSelection => launches[k].executable_path = None
        /\ ~AutoSelection => launches[k].executable_path = args.driver_path

\* C20 witness: auto-selection with a --driver-path given has made two
\* launch attempts, both with no driver path, and holds the second session.
C20_Witness ==
    /\ AutoSelection
    /\ args.driver_path = "/opt/driver"
    /\ Len(launches) = 2
    /\ launches[1].executable_path = None
    /\ launches[2].executable_path = None
    /\ Acquired

====
